---------------------------- MODULE Spec2Model ----------------------------
(***************************************************************************)
(* A model of the Chip-8 interpreter of src/src/main.rs and of its         *)
(* instruction decoder of src/src/instruction.rs.                          *)
(*                                                                         *)
(* The machine (struct System) is one record, sys.  The run loop of        *)
(* System::run alternates fetch_instr and apply; ctl is the position of    *)
(* the host ("setup" before run, then "fetch" and "apply" in the loop,     *)
(* "returned" after it), opcode and ins are the locals of fetch_instr and  *)
(* of the loop.                                                            *)
(* A Rust panic (an index out of bounds, an arithmetic overflow of a       *)
(* build with overflow checks) ends the process: ctl = "panicked".         *)
(***************************************************************************)
EXTENDS Integers, Sequences, FiniteSets, TLC

VARIABLES sys, opcode, ins, ctl

vars == <<sys, opcode, ins, ctl>>

(***************************************************************************)
(* Program constants.                                                      *)
(***************************************************************************)
WIDTH == 64
HEIGHT == 32
NumRegs == 16
StackSize == 16
MemSize == 4096
NumKeys == 16
ProgramStart == \h200
U8 == 256
U16 == 65536

(***************************************************************************)
(* Bounds of the model.                                                    *)
(***************************************************************************)
\* literal bytes of the generated programs: 0..MaxLit and 255-MaxLit..255
MaxLit == 1
\* deepest chain of nested calls a generated program makes
MaxDepth == 17
\* largest value a generated program loads into a timer (besides 255)
MaxTimer == 3

(***************************************************************************)
(* instruction.rs: the Instruction enum.  One constructor per variant;     *)
(* None is the decode failure of Option<Instruction>.                      *)
(***************************************************************************)
None == [op |-> "None"]
Sys(nnn) == [op |-> "Sys", nnn |-> nnn]
Cls == [op |-> "Cls"]
Ret == [op |-> "Ret"]
Jp(nnn) == [op |-> "Jp", nnn |-> nnn]
Call(nnn) == [op |-> "Call", nnn |-> nnn]
Se(x, kk) == [op |-> "Se", x |-> x, kk |-> kk]
Sne(x, kk) == [op |-> "Sne", x |-> x, kk |-> kk]
SeReg(x, y) == [op |-> "SeReg", x |-> x, y |-> y]
Ld(x, kk) == [op |-> "Ld", x |-> x, kk |-> kk]
AddReg(x, kk) == [op |-> "AddReg", x |-> x, kk |-> kk]
LdReg(x, y) == [op |-> "LdReg", x |-> x, y |-> y]
Or(x, y) == [op |-> "Or", x |-> x, y |-> y]
And(x, y) == [op |-> "And", x |-> x, y |-> y]
Xor(x, y) == [op |-> "Xor", x |-> x, y |-> y]
AddCarry(x, y) == [op |-> "AddCarry", x |-> x, y |-> y]
Sub(x, y) == [op |-> "Sub", x |-> x, y |-> y]
Shr(x, y) == [op |-> "Shr", x |-> x, y |-> y]
Subn(x, y) == [op |-> "Subn", x |-> x, y |-> y]
Shl(x, y) == [op |-> "Shl", x |-> x, y |-> y]
SneReg(x, y) == [op |-> "SneReg", x |-> x, y |-> y]
LdI(nnn) == [op |-> "LdI", nnn |-> nnn]
JpV0(nnn) == [op |-> "JpV0", nnn |-> nnn]
Rnd(x, kk) == [op |-> "Rnd", x |-> x, kk |-> kk]
Drw(x, y, n) == [op |-> "Drw", x |-> x, y |-> y, n |-> n]
Skp(x) == [op |-> "Skp", x |-> x]
Sknp(x) == [op |-> "Sknp", x |-> x]
LdDelayTimerValue(x) == [op |-> "LdDelayTimerValue", x |-> x]
LdKeypress(x) == [op |-> "LdKeypress", x |-> x]
LdDelayTimerReg(x) == [op |-> "LdDelayTimerReg", x |-> x]
LdSoundTimer(x) == [op |-> "LdSoundTimer", x |-> x]
AddI(x) == [op |-> "AddI", x |-> x]
LdSprite(x) == [op |-> "LdSprite", x |-> x]
LdBCD(x) == [op |-> "LdBCD", x |-> x]
LdStoreV0(x) == [op |-> "LdStoreV0", x |-> x]
LdReadV0(x) == [op |-> "LdReadV0", x |-> x]

(***************************************************************************)
(* instruction.rs: operand extraction.                                     *)
(***************************************************************************)
\* (val & 0x0f00) >> 8
get_x(val) == (val \div 256) % 16
\* get_y without the shift: val & 0x00f0
get_y_unshifted(val) == ((val \div 16) % 16) * 16

\* (val & 0x00f0) >> 4
get_y(val) == (val \div 16) % 16
\* val & 0x0fff
get_addr(val) == val % 4096
\* val & 0x00ff
get_byte(val) == val % 256
\* get_nibble with the mask of get_byte
get_nibble_byte_mask(val) == val % 256

\* val & 0x000f
get_nibble(val) == val % 16

(***************************************************************************)
(* instruction.rs: Instruction::parse.  A Rust match takes the first arm   *)
(* that matches: the chain of IFs keeps the order of the arms.             *)
(***************************************************************************)
parse(val) ==
    LET n0 == (val \div 4096) % 16
        n1 == (val \div 256) % 16
        n2 == (val \div 16) % 16
        n3 == val % 16
    IN  IF n0 = 0 /\ n1 = 0 /\ n2 = 14 /\ n3 = 0 THEN Cls
        ELSE IF n0 = 0 /\ n1 = 0 /\ n2 = 14 /\ n3 = 14 THEN Ret
        ELSE IF n0 = 0 THEN Sys(get_addr(val))
        ELSE IF n0 = 1 THEN Jp(get_addr(val))
        ELSE IF n0 = 2 THEN Call(get_addr(val))
        ELSE IF n0 = 3 THEN Se(get_x(val), get_byte(val))
        ELSE IF n0 = 4 THEN Sne(get_x(val), get_byte(val))
        ELSE IF n0 = 5 /\ n3 = 0 THEN SeReg(get_x(val), get_y(val))
        ELSE IF n0 = 6 THEN Ld(get_x(val), get_byte(val))
        ELSE IF n0 = 7 THEN AddReg(get_x(val), get_byte(val))
        ELSE IF n0 = 8 /\ n3 = 0 THEN LdReg(get_x(val), get_y(val))
        ELSE IF n0 = 8 /\ n3 = 1 THEN Or(get_x(val), get_y(val))
        ELSE IF n0 = 8 /\ n3 = 2 THEN And(get_x(val), get_y(val))
        ELSE IF n0 = 8 /\ n3 = 3 THEN Xor(get_x(val), get_y(val))
        ELSE IF n0 = 8 /\ n3 = 4 THEN AddCarry(get_x(val), get_y(val))
        ELSE IF n0 = 8 /\ n3 = 5 THEN Sub(get_x(val), get_y(val))
        ELSE IF n0 = 8 /\ n3 = 6 THEN Shr(get_x(val), get_y(val))
        ELSE IF n0 = 8 /\ n3 = 7 THEN Subn(get_x(val), get_y(val))
        ELSE IF n0 = 8 /\ n3 = 14 THEN Shl(get_x(val), get_y(val))
        ELSE IF n0 = 9 /\ n3 = 0 THEN SneReg(get_x(val), get_y(val))
        ELSE IF n0 = 10 THEN LdI(get_addr(val))
        ELSE IF n0 = 11 THEN JpV0(get_addr(val))
        ELSE IF n0 = 12 THEN Rnd(get_x(val), get_byte(val))
        ELSE IF n0 = 13 THEN Drw(get_x(val), get_y(val), get_nibble(val))
        ELSE IF n0 = 14 /\ n2 = 9 /\ n3 = 14 THEN Skp(get_x(val))
        ELSE IF n0 = 14 /\ n2 = 10 /\ n3 = 1 THEN Sknp(get_x(val))
        ELSE IF n0 = 15 /\ n2 = 0 /\ n3 = 7 THEN LdDelayTimerValue(get_x(val))
        ELSE IF n0 = 15 /\ n2 = 0 /\ n3 = 10 THEN LdKeypress(get_x(val))
        ELSE IF n0 = 15 /\ n2 = 1 /\ n3 = 5 THEN LdDelayTimerReg(get_x(val))
        ELSE IF n0 = 15 /\ n2 = 1 /\ n3 = 8 THEN LdSoundTimer(get_x(val))
        ELSE IF n0 = 15 /\ n2 = 1 /\ n3 = 14 THEN AddI(get_x(val))
        ELSE IF n0 = 15 /\ n2 = 2 /\ n3 = 9 THEN LdSprite(get_x(val))
        ELSE IF n0 = 15 /\ n2 = 3 /\ n3 = 3 THEN LdBCD(get_x(val))
        ELSE IF n0 = 15 /\ n2 = 5 /\ n3 = 5 THEN LdStoreV0(get_x(val))
        ELSE IF n0 = 15 /\ n2 = 6 /\ n3 = 5 THEN LdReadV0(get_x(val))
        ELSE None

(***************************************************************************)
(* main.rs: bits, the eight bits of a byte, most significant first.        *)
(***************************************************************************)
Pow2(k) == CASE k = 0 -> 1 [] k = 1 -> 2 [] k = 2 -> 4 [] k = 3 -> 8
             [] k = 4 -> 16 [] k = 5 -> 32 [] k = 6 -> 64 [] k = 7 -> 128

\* val & mask, for a mask with a single bit set
AndMask(val, mask) == ((val \div mask) % 2) * mask

bits(val) ==
    [i \in 0..7 |->
        LET mask == 128 \div Pow2(i)
            bit == AndMask(val, mask) \div Pow2(8 - i - 1)
        IN  bit = 1]

\* a & b on bytes
BitAnd(a, b) ==
    LET ba == bits(a)
        bb == bits(b)
        v(i) == IF ba[i] /\ bb[i] THEN Pow2(7 - i) ELSE 0
    IN  v(0) + v(1) + v(2) + v(3) + v(4) + v(5) + v(6) + v(7)

(***************************************************************************)
(* main.rs: Display, Keyboard, System::new.                                *)
(***************************************************************************)
Display_new == [arr |-> [x \in 0..(HEIGHT - 1) |-> [y \in 0..(WIDTH - 1) |-> FALSE]]]

Keyboard_new == [keys |-> [k \in 0..(NumKeys - 1) |-> FALSE]]

Font ==
    << \hF0, \h90, \h90, \h90, \hF0,
       \h20, \h60, \h20, \h20, \h70,
       \hF0, \h10, \hF0, \h80, \hF0,
       \hF0, \h10, \hF0, \h10, \hF0,
       \h90, \h90, \hF0, \h10, \h10,
       \hF0, \h80, \hF0, \h10, \hF0,
       \hF0, \h80, \hF0, \h90, \hF0,
       \hF0, \h10, \h20, \h40, \h40,
       \hF0, \h90, \hF0, \h90, \hF0,
       \hF0, \h90, \hF0, \h10, \hF0,
       \hF0, \h90, \hF0, \h90, \h90,
       \hE0, \h90, \hE0, \h90, \hE0,
       \hF0, \h80, \h80, \h80, \hF0,
       \hE0, \h90, \h90, \h90, \hE0,
       \hF0, \h80, \hF0, \h80, \hF0,
       \hF0, \h80, \hF0, \h80, \h80 >>

System_new ==
    [ regs |-> [r \in 0..(NumRegs - 1) |-> 0],
      i |-> 0,
      pc |-> 0,
      sp |-> 0,
      dt |-> 0,
      st |-> 0,
      stack |-> [k \in 0..(StackSize - 1) |-> 0],
      mem |-> [a \in 0..(MemSize - 1) |-> IF a < Len(Font) THEN Font[a + 1] ELSE 0],
      display |-> Display_new,
      keyboard |-> Keyboard_new ]


(***************************************************************************)
(* The outcome of a method: the machine it leaves and whether it panicked. *)
(* A panic keeps what the method had written before it.                    *)
(***************************************************************************)
Ok(s) == [sys |-> s, panicked |-> FALSE]
Panic(s) == [sys |-> s, panicked |-> TRUE]

(***************************************************************************)
(* main.rs: inc_pc, inc_sp.  `+=` on u16 / u8: past the width, a build     *)
(* with overflow checks (chk) panics and a build without them wraps.       *)
(***************************************************************************)
inc_pc(s, chk) ==
    IF s.pc + 2 >= U16
    THEN IF chk THEN Panic(s) ELSE Ok([s EXCEPT !.pc = (s.pc + 2) % U16])
    ELSE Ok([s EXCEPT !.pc = s.pc + 2])

inc_sp(s, chk) ==
    IF s.sp + 1 >= U8
    THEN IF chk THEN Panic(s) ELSE Ok([s EXCEPT !.sp = (s.sp + 1) % U8])
    ELSE Ok([s EXCEPT !.sp = s.sp + 1])

(***************************************************************************)
(* main.rs: Display::xor on arr: [[bool; 64]; 32], indexed arr[x][y].      *)
(***************************************************************************)
\* the bounds checks of self.arr[x][y]
in_display(x, y) == x < HEIGHT /\ y < WIDTH

\* xor that stores val (what Display::set does) instead of toggling
xor_as_set(d, x, y, val) == [d EXCEPT !.arr[x][y] = val]

\* the display after self.arr[x][y] ^= val
xor(d, x, y, val) == [d EXCEPT !.arr[x][y] = (@ # val)]

\* the value xor returns: previous == true && self.arr[x][y] == false
xor_collision(d, x, y, val) == d.arr[x][y] = TRUE /\ xor(d, x, y, val).arr[x][y] = FALSE

\* Display::clear_screen
clear_screen(d) == [d EXCEPT !.arr = [x \in 0..(HEIGHT - 1) |-> [y \in 0..(WIDTH - 1) |-> FALSE]]]

(***************************************************************************)
(* main.rs: Keyboard.                                                      *)
(***************************************************************************)
down(kb, key) == [kb EXCEPT !.keys[key] = TRUE]
up(kb, key) == [kb EXCEPT !.keys[key] = FALSE]
is_pressed(kb, key) == kb.keys[key]

(***************************************************************************)
(* main.rs: System::apply, one operator per arm of the match.              *)
(***************************************************************************)
apply_Ld(s, x, kk) == Ok([s EXCEPT !.regs[x] = kk])

apply_LdI(s, nnn) == Ok([s EXCEPT !.i = nnn])

\* The inner loop of Drw for one sprite byte: the bits lo..hi of the byte in
\* turn (the lower half of them, then the upper half), stopping at a panic.
\* The code names the bit's index row and the byte's index column.
RECURSIVE DrwBits(_, _, _, _, _, _, _)
DrwBits(r, x, y, column, byte, lo, hi) ==
    IF r.panicked \/ lo > hi THEN r
    ELSE IF lo = hi
    THEN LET row == lo
             bit == bits(byte)[row]
             _x == x + row
             _y == y + column
         IN  IF ~in_display(_x, _y) THEN Panic(r.sys)
             ELSE LET collision == xor_collision(r.sys.display, _x, _y, bit)
                  IN  Ok([r.sys EXCEPT !.display = xor(r.sys.display, _x, _y, bit),
                                       !.regs[15] = IF collision THEN 1 ELSE 0])
    ELSE LET mid == (lo + hi) \div 2
         IN  DrwBits(DrwBits(r, x, y, column, byte, lo, mid), x, y, column, byte, mid + 1, hi)

\* The outer loop of Drw: the bytes lo..hi of the sprite in turn (0-based as
\* in the code; sprite is 1-based here), stopping at a panic.
RECURSIVE DrwBytes(_, _, _, _, _, _)
DrwBytes(r, x, y, sprite, lo, hi) ==
    IF r.panicked \/ lo > hi THEN r
    ELSE IF lo = hi THEN DrwBits(r, x, y, lo, sprite[lo + 1], 0, 7)
    ELSE LET mid == (lo + hi) \div 2
         IN  DrwBytes(DrwBytes(r, x, y, sprite, lo, mid), x, y, sprite, mid + 1, hi)

apply_Drw(s, x, y, length) ==
    LET from == s.i
        to == from + length
    IN  IF to > MemSize THEN Panic(s)
        ELSE DrwBytes(Ok(s), x, y, [c \in 1..length |-> s.mem[from + c - 1]], 0, length - 1)

\* Call without the bounds check of the stack index
apply_Call_unchecked(s, nnn, chk) ==
    LET r == inc_sp([s EXCEPT !.stack[s.sp] = s.pc], chk)
    IN  IF r.panicked THEN r ELSE Ok([r.sys EXCEPT !.pc = nnn])

apply_Call(s, nnn, chk) ==
    IF s.sp >= StackSize THEN Panic(s)
    ELSE LET r == inc_sp([s EXCEPT !.stack[s.sp] = s.pc], chk)
         IN  IF r.panicked THEN r ELSE Ok([r.sys EXCEPT !.pc = nnn])

\* self.mem[self.i as usize + k] = vals[k] for k = 0, 1, ... in turn (vals is
\* 1-based here); the first index past the memory panics, after the writes
\* before it
RECURSIVE mem_store(_, _, _, _)
mem_store(r, vals, lo, hi) ==
    IF r.panicked \/ lo > hi THEN r
    ELSE IF lo = hi
    THEN IF r.sys.i + (lo - 1) >= MemSize THEN Panic(r.sys)
         ELSE Ok([r.sys EXCEPT !.mem[r.sys.i + (lo - 1)] = vals[lo]])
    ELSE LET mid == (lo + hi) \div 2
         IN  mem_store(mem_store(r, vals, lo, mid), vals, mid + 1, hi)

apply_LdBCD(s, x) ==
    LET val == s.regs[x]
        a == (val \div 100) % 10
        b == (val \div 10) % 10
        c == (val \div 1) % 10
    IN  mem_store(Ok(s), <<a, b, c>>, 1, 3)

\* mem.iter().skip(i).take(x + 1): the iterator ends at the end of memory
apply_LdReadV0(s, x) ==
    Ok([s EXCEPT !.regs = [r \in 0..(NumRegs - 1) |->
            IF r <= x /\ s.i + r < MemSize THEN s.mem[s.i + r] ELSE s.regs[r]]])

apply_LdSprite(s, x) == Ok([s EXCEPT !.i = x * 5])

\* Add-literal that also writes a carry to the flag register
apply_AddReg_carry(s, x, y) ==
    LET s1 == [s EXCEPT !.regs[x] = (s.regs[x] + y) % U8]
    IN  Ok([s1 EXCEPT !.regs[15] = IF s.regs[x] + y >= U8 THEN 1 ELSE 0])

apply_AddReg(s, x, y) == Ok([s EXCEPT !.regs[x] = (s.regs[x] + y) % U8])

\* Ret that forgets self.sp -= 1
apply_Ret_keep_sp(s) ==
    IF s.sp = 0 THEN Ok(s)
    ELSE Ok([s EXCEPT !.pc = s.stack[s.sp - 1]])

\* Ret without the guard: self.sp as usize - 1 underflows when sp is 0
apply_Ret_unguarded(s) ==
    IF s.sp = 0 THEN Panic(s)
    ELSE Ok([s EXCEPT !.pc = s.stack[s.sp - 1], !.sp = s.sp - 1])

apply_Ret(s) ==
    IF s.sp = 0 THEN Ok(s)
    ELSE Ok([s EXCEPT !.pc = s.stack[s.sp - 1], !.sp = s.sp - 1])

apply_LdDelayTimerReg(s, x) == Ok([s EXCEPT !.dt = s.regs[x]])

apply_LdDelayTimerValue(s, x) == Ok([s EXCEPT !.regs[x] = s.dt])

apply_SeReg(s, x, y, chk) == IF s.regs[x] = s.regs[y] THEN inc_pc(s, chk) ELSE Ok(s)

apply_SneReg(s, x, y, chk) == IF s.regs[x] # s.regs[y] THEN inc_pc(s, chk) ELSE Ok(s)

apply_Rnd(s, x, byte, rand) == Ok([s EXCEPT !.regs[x] = BitAnd(rand, byte)])

apply_Skp(s, x, chk) == IF is_pressed(s.keyboard, x) THEN inc_pc(s, chk) ELSE Ok(s)

apply_Sknp(s, x, chk) == IF ~is_pressed(s.keyboard, x) THEN inc_pc(s, chk) ELSE Ok(s)

apply_And(s, x, y) == Ok([s EXCEPT !.regs[x] = BitAnd(s.regs[x], s.regs[y])])

\* AddCarry whose carry test is off by one
apply_AddCarry_late(s, x, y) ==
    LET sum == s.regs[x] + s.regs[y]
        val == sum % U8
        overflowing == sum > U8
        s1 == [s EXCEPT !.regs[x] = val]
    IN  Ok([s1 EXCEPT !.regs[15] = IF overflowing THEN 1 ELSE 0])

apply_AddCarry(s, x, y) ==
    LET sum == s.regs[x] + s.regs[y]
        val == sum % U8
        overflowing == sum >= U8
        s1 == [s EXCEPT !.regs[x] = val]
    IN  Ok([s1 EXCEPT !.regs[15] = IF overflowing THEN 1 ELSE 0])

apply_Se(s, x, byte, chk) == IF s.regs[x] = byte THEN inc_pc(s, chk) ELSE Ok(s)

apply_Sne(s, x, byte, chk) == IF s.regs[x] # byte THEN inc_pc(s, chk) ELSE Ok(s)

apply_Jp(s, byte) == Ok([s EXCEPT !.pc = byte])

apply_LdReg(s, x, y) == Ok([s EXCEPT !.regs[x] = s.regs[y]])

apply_Sub(s, x, y) ==
    LET diff == s.regs[x] - s.regs[y]
        val == diff % U8
        overflowing == diff < 0
        s1 == [s EXCEPT !.regs[x] = val]
    IN  Ok([s1 EXCEPT !.regs[15] = IF overflowing THEN 1 ELSE 0])

apply_LdSoundTimer(s, x) == Ok([s EXCEPT !.st = s.regs[x]])

apply_AddI(s, x, chk) ==
    IF s.i + s.regs[x] >= U16
    THEN IF chk THEN Panic(s) ELSE Ok([s EXCEPT !.i = (s.i + s.regs[x]) % U16])
    ELSE Ok([s EXCEPT !.i = s.i + s.regs[x]])

apply_Cls(s) == Ok([s EXCEPT !.display = clear_screen(s.display)])

apply_LdStoreV0(s, x) == mem_store(Ok(s), [k \in 1..(x + 1) |-> s.regs[k - 1]], 1, x + 1)

\* rand is the byte rand::random gives, chk whether the build checks overflow
apply(s, instruction, rand, chk) ==
    LET o == instruction.op
    IN  CASE o = "Ld" -> apply_Ld(s, instruction.x, instruction.kk)
          [] o = "LdI" -> apply_LdI(s, instruction.nnn)
          [] o = "Drw" -> apply_Drw(s, instruction.x, instruction.y, instruction.n)
          [] o = "Call" -> apply_Call(s, instruction.nnn, chk)
          [] o = "LdBCD" -> apply_LdBCD(s, instruction.x)
          [] o = "LdReadV0" -> apply_LdReadV0(s, instruction.x)
          [] o = "LdSprite" -> apply_LdSprite(s, instruction.x)
          [] o = "AddReg" -> apply_AddReg(s, instruction.x, instruction.kk)
          [] o = "Ret" -> apply_Ret(s)
          [] o = "LdDelayTimerReg" -> apply_LdDelayTimerReg(s, instruction.x)
          [] o = "LdDelayTimerValue" -> apply_LdDelayTimerValue(s, instruction.x)
          [] o = "SeReg" -> apply_SeReg(s, instruction.x, instruction.y, chk)
          [] o = "SneReg" -> apply_SneReg(s, instruction.x, instruction.y, chk)
          [] o = "Rnd" -> apply_Rnd(s, instruction.x, instruction.kk, rand)
          [] o = "Skp" -> apply_Skp(s, instruction.x, chk)
          [] o = "Sknp" -> apply_Sknp(s, instruction.x, chk)
          [] o = "And" -> apply_And(s, instruction.x, instruction.y)
          [] o = "AddCarry" -> apply_AddCarry(s, instruction.x, instruction.y)
          [] o = "Se" -> apply_Se(s, instruction.x, instruction.kk, chk)
          [] o = "Sne" -> apply_Sne(s, instruction.x, instruction.kk, chk)
          [] o = "Jp" -> apply_Jp(s, instruction.nnn)
          [] o = "LdReg" -> apply_LdReg(s, instruction.x, instruction.y)
          [] o = "Sub" -> apply_Sub(s, instruction.x, instruction.y)
          [] o = "LdSoundTimer" -> apply_LdSoundTimer(s, instruction.x)
          [] o = "AddI" -> apply_AddI(s, instruction.x, chk)
          [] o = "Cls" -> apply_Cls(s)
          [] o = "LdStoreV0" -> apply_LdStoreV0(s, instruction.x)
          [] OTHER -> Ok(s)

(***************************************************************************)
(* main.rs: fetch_instr.                                                   *)
(***************************************************************************)
\* the timers decremented with wrapping_sub and no test for zero
tick_timers_wrapping(s) ==
    [s EXCEPT !.dt = (s.dt - 1) % U8, !.st = (s.st - 1) % U8]

\* lines 214-219: each timer goes down by one unless it is zero
tick_timers(s) ==
    LET s1 == IF s.dt # 0 THEN [s EXCEPT !.dt = s.dt - 1] ELSE s
    IN  IF s1.st # 0 THEN [s1 EXCEPT !.st = s1.st - 1] ELSE s1

\* the outcome, with the opcode read and the Option<Instruction> returned
fetch_instr(s, chk) ==
    IF s.pc + 0 >= MemSize \/ s.pc + 1 >= MemSize
    THEN [sys |-> s, panicked |-> TRUE, opcode |-> 0, ins |-> None]
    ELSE LET op == s.mem[s.pc + 0] * 256 + s.mem[s.pc + 1]
             r == inc_pc(s, chk)
         IN  IF r.panicked
             THEN [sys |-> r.sys, panicked |-> TRUE, opcode |-> op, ins |-> None]
             ELSE [sys |-> tick_timers(r.sys), panicked |-> FALSE,
                   opcode |-> op, ins |-> parse(op)]

(***************************************************************************)
(* main.rs: fetch_file copies the program to 0x200; run starts there.      *)
(***************************************************************************)
\* self.mem[0x200 + i] = byte for byte i of the file (bytes is 1-based here;
\* the programs of the model fit in memory)
fetch_file(s, bytes) ==
    [s EXCEPT !.mem =
        [a \in ProgramStart..(ProgramStart + Len(bytes) - 1) |-> bytes[a - ProgramStart + 1]]
            @@ s.mem]

run_start(s) == [s EXCEPT !.pc = ProgramStart]


(***************************************************************************)
(* The programs the machine is run on (the file fetch_file reads), as      *)
(* sequences of 16-bit words.  Every program ends in two words that do not *)
(* decode, so that the run loop ends after it, also after a skip.          *)
(***************************************************************************)
End == \hFFFF
EncNNN(base, nnn) == base + nnn
EncXKK(base, x, kk) == base + x * 256 + kk
EncXY(base, x, y) == base + x * 256 + y * 16
EncXYN(base, x, y, n) == base + x * 256 + y * 16 + n
EncX(base, x) == base + x * 256

Lits == (0..MaxLit) \cup ((255 - MaxLit)..255)
RegPairs == {<<0, 1>>, <<1, 0>>, <<0, 15>>, <<15, 0>>, <<1, 1>>, <<15, 15>>}
TestRegs == {0, 1, 15}
TestKeys == {1}
RandBytes == Lits
Strides == {4, 6}

\* the bytes of a sequence of words, high byte first
Image(words) ==
    [k \in 1..(2 * Len(words)) |->
        IF k % 2 = 1 THEN words[(k + 1) \div 2] \div 256 ELSE words[k \div 2] % 256]

\* 5xy0, 8xy0..8xy7, 8xyE, 9xy0 on two loaded registers
AluOps == {\h5000, \h8000, \h8001, \h8002, \h8003, \h8004, \h8005, \h8006,
           \h8007, \h800E, \h9000}
AluRoms ==
    { << EncXKK(\h6000, p[1], a), EncXKK(\h6000, p[2], b), EncXY(o, p[1], p[2]), End, End >> :
        p \in RegPairs, a \in Lits, b \in Lits, o \in AluOps }

\* 3xkk, 4xkk, 7xkk, Cxkk on a loaded register
LitOps == {\h3000, \h4000, \h7000, \hC000}
LitRoms ==
    { << EncXKK(\h6000, x, a), EncXKK(o, x, k), End, End, End >> :
        x \in TestRegs, a \in Lits, k \in Lits \cup {2}, o \in LitOps }

\* a chain of n nested calls, the call sites stride bytes apart, each
\* followed by the return that unwinds it
ChainRom(n, stride) ==
    LET h == stride \div 2
    IN  [p \in 1..(h * n + 1) |->
            LET k == (p - 1) \div h
                off == (p - 1) % h
            IN  IF k = n THEN \h00EE
                ELSE IF off = 0 THEN EncNNN(\h2000, ProgramStart + stride * (k + 1))
                ELSE IF off = 1 /\ k > 0 THEN \h00EE
                ELSE End]
CallRoms ==
    { ChainRom(n, s) : n \in 1..MaxDepth, s \in Strides }
    \cup { << EncNNN(\h2000, ProgramStart) >>,
           << \h00EE, End, End >>,
           << EncNNN(\h2000, \h206), End, End, \h00EE, \h00EE, End >> }

\* timers loaded from registers, then left to run down
Idle(n) == [k \in 1..n |-> 0]
TimerRoms ==
    { << EncXKK(\h6000, 0, v), EncX(\hF015, 0), EncXKK(\h6000, 1, w), EncX(\hF018, 1),
         EncX(\hF007, 2) >> \o Idle(MaxTimer + 1) \o << End, End >> :
        v \in 0..MaxTimer, w \in 0..MaxTimer }
    \cup { << EncXKK(\h6000, 0, 255), EncX(\hF015, 0), EncX(\hF018, 0),
              EncNNN(\h1000, \h206) >> }

\* sprites drawn once, then twice at a second place
SpriteAddrs == {0, 5, \h20A, 4095}
SpriteLens == {0, 1, 5, 15}
DrawAt == {<<0, 0>>, <<1, 0>>, <<15, 15>>}
DrawRoms ==
    { << EncNNN(\hA000, a), EncXYN(\hD000, p[1], p[2], n), EncXYN(\hD000, q[1], q[2], n),
         EncXYN(\hD000, q[1], q[2], n), \h00E0, End, End >> :
        a \in SpriteAddrs, n \in SpriteLens, p \in DrawAt, q \in DrawAt }

\* registers stored to memory and read back, BCD, I += Vx, I = sprite
MemAddrs == {0, \h300, 4094, 4095}
MemRoms ==
    { << EncXKK(\h6000, 0, a), EncXKK(\h6000, 1, 255 - a), EncNNN(\hA000, m),
         EncX(\hF055, x), EncXKK(\h6000, 0, 0), EncXKK(\h6000, 1, 0), EncX(\hF065, x),
         End, End >> :
        a \in Lits, m \in MemAddrs, x \in {0, 1} }
    \cup { << EncXKK(\h6000, x, a), EncNNN(\hA000, m), EncX(\hF033, x), End, End >> :
        x \in {0, 15}, a \in Lits \cup {123}, m \in MemAddrs }
    \cup { << EncXKK(\h6000, x, a), EncNNN(\hA000, m), EncX(\hF01E, x), EncX(\hF029, x),
              End, End >> :
        x \in TestRegs, a \in Lits, m \in MemAddrs }

\* the keyboard instructions, a jump, a jump past the memory
KeyRoms ==
    { << EncXKK(\h6000, x, a), EncX(o, x), End, End, End >> :
        x \in TestRegs, a \in {0, 1}, o \in {\hE09E, \hE0A1, \hF00A} }
    \cup { << EncNNN(\h1000, \h204), End, End >>,
           << EncNNN(\h1000, 4095) >>,
           << EncXKK(\h6000, 0, 2), EncNNN(\hB000, \h204), End, End >> }

Roms == AluRoms \cup LitRoms \cup CallRoms \cup TimerRoms \cup DrawRoms
        \cup MemRoms \cup KeyRoms

(***************************************************************************)
(* main.rs: main and System::run.  Init is the machine after new and       *)
(* fetch_file.  run borrows the machine until it returns, so the host can  *)
(* call Keyboard::down and Keyboard::up only before run: ctl = "setup".    *)
(***************************************************************************)
Init ==
    /\ \E rom \in Roms : sys = fetch_file(System_new, Image(rom))
    /\ opcode = 0
    /\ ins = None
    /\ ctl = "setup"

\* Only Skp and Sknp read the keyboard (and LdKeypress is to wait for it):
\* the host's calls are taken for the programs that hold one of them in their
\* first eight words, and make no difference to the run of any other.
KeyReaders == {"Skp", "Sknp", "LdKeypress"}

ReadsKeys(s) ==
    \E k \in 0..7 :
        parse(s.mem[ProgramStart + 2 * k] * 256 + s.mem[ProgramStart + 2 * k + 1]).op
            \in KeyReaders

KeyDown ==
    /\ ctl = "setup"
    /\ ReadsKeys(sys)
    /\ \E key \in TestKeys : sys' = [sys EXCEPT !.keyboard = down(sys.keyboard, key)]
    /\ UNCHANGED <<opcode, ins, ctl>>

KeyUp ==
    /\ ctl = "setup"
    /\ ReadsKeys(sys)
    /\ \E key \in TestKeys : sys' = [sys EXCEPT !.keyboard = up(sys.keyboard, key)]
    /\ UNCHANGED <<opcode, ins, ctl>>

\* run: self.pc = 0x200, then the loop
Run ==
    /\ ctl = "setup"
    /\ sys' = run_start(sys)
    /\ ctl' = "fetch"
    /\ UNCHANGED <<opcode, ins>>

\* while let Some(ins) = self.fetch_instr()
FetchInstr ==
    /\ ctl = "fetch"
    /\ \E chk \in BOOLEAN :
         LET r == fetch_instr(sys, chk)
         IN  /\ sys' = r.sys
             /\ opcode' = IF r.panicked THEN opcode ELSE r.opcode
             /\ ins' = IF r.panicked THEN ins ELSE r.ins
             /\ ctl' = IF r.panicked THEN "panicked"
                       ELSE IF r.ins = None THEN "returned" ELSE "apply"

\* self.apply(ins)
ApplyInstr ==
    /\ ctl = "apply"
    /\ \E rand \in (IF ins.op = "Rnd" THEN RandBytes ELSE {0}), chk \in BOOLEAN :
         LET r == apply(sys, ins, rand, chk)
         IN  /\ sys' = r.sys
             /\ ctl' = IF r.panicked THEN "panicked" ELSE "fetch"
    /\ UNCHANGED <<opcode, ins>>

Next == KeyDown \/ KeyUp \/ Run \/ FetchInstr \/ ApplyInstr

Spec == Init /\ [][Next]_vars


(***************************************************************************)
(* instruction.rs: InstructionIterator::next reads two bytes from its      *)
(* reader and parses the word they make.  SpecParse is one call of next on *)
(* a reader that may hold any two bytes.                                   *)
(***************************************************************************)
InitParse ==
    /\ sys = System_new
    /\ opcode = 0
    /\ ins = None
    /\ ctl = "next"

IterNext ==
    /\ ctl = "next"
    /\ \E d0 \in 0..(U8 - 1), d1 \in 0..(U8 - 1) :
         /\ opcode' = d0 * 256 + d1
         /\ ins' = parse(d0 * 256 + d1)
    /\ ctl' = "yielded"
    /\ UNCHANGED sys

NextParse == IterNext

SpecParse == InitParse /\ [][NextParse]_vars

(***************************************************************************)
(* The properties.                                                         *)
(***************************************************************************)

\* The decode table of the specification: the variant and the operands for
\* the nibble pattern of w, None for a word that matches no row.
DecodeTable(w) ==
    LET n0 == (w \div 4096) % 16
        x == (w \div 256) % 16
        y == (w \div 16) % 16
        n == w % 16
        addr == w % 4096
        byte == w % 256
    IN  CASE w = \h00E0 -> Cls
          [] w = \h00EE -> Ret
          [] n0 = 0 /\ w # \h00E0 /\ w # \h00EE -> Sys(addr)
          [] n0 = 1 -> Jp(addr)
          [] n0 = 2 -> Call(addr)
          [] n0 = 3 -> Se(x, byte)
          [] n0 = 4 -> Sne(x, byte)
          [] n0 = 5 /\ n = 0 -> SeReg(x, y)
          [] n0 = 6 -> Ld(x, byte)
          [] n0 = 7 -> AddReg(x, byte)
          [] n0 = 8 /\ n = 0 -> LdReg(x, y)
          [] n0 = 8 /\ n = 1 -> Or(x, y)
          [] n0 = 8 /\ n = 2 -> And(x, y)
          [] n0 = 8 /\ n = 3 -> Xor(x, y)
          [] n0 = 8 /\ n = 4 -> AddCarry(x, y)
          [] n0 = 8 /\ n = 5 -> Sub(x, y)
          [] n0 = 8 /\ n = 6 -> Shr(x, y)
          [] n0 = 8 /\ n = 7 -> Subn(x, y)
          [] n0 = 8 /\ n = 14 -> Shl(x, y)
          [] n0 = 9 /\ n = 0 -> SneReg(x, y)
          [] n0 = 10 -> LdI(addr)
          [] n0 = 11 -> JpV0(addr)
          [] n0 = 12 -> Rnd(x, byte)
          [] n0 = 13 -> Drw(x, y, n)
          [] n0 = 14 /\ byte = \h9E -> Skp(x)
          [] n0 = 14 /\ byte = \hA1 -> Sknp(x)
          [] n0 = 15 /\ byte = \h07 -> LdDelayTimerValue(x)
          [] n0 = 15 /\ byte = \h0A -> LdKeypress(x)
          [] n0 = 15 /\ byte = \h15 -> LdDelayTimerReg(x)
          [] n0 = 15 /\ byte = \h18 -> LdSoundTimer(x)
          [] n0 = 15 /\ byte = \h1E -> AddI(x)
          [] n0 = 15 /\ byte = \h29 -> LdSprite(x)
          [] n0 = 15 /\ byte = \h33 -> LdBCD(x)
          [] n0 = 15 /\ byte = \h55 -> LdStoreV0(x)
          [] n0 = 15 /\ byte = \h65 -> LdReadV0(x)
          [] OTHER -> None

\* C1: for every 16-bit word, parse gives the variant and the operands the
\* decode table lists for the word's nibble pattern, and the decode failure
\* for a word that matches no row of the table.
C1_ParseIsDecodeTable == ctl = "yielded" => ins = DecodeTable(opcode)

\* a word 8xy8, which no row of the table matches, was read and refused
C1_Witness == ctl = "yielded" /\ opcode = \h8128 /\ ins = None


\* the call addresses of the balance property: the k-th call goes to
\* (f[1] + f[2] * k) mod 4096
CallTargets == {<<ProgramStart, 4>>, <<4095, 0>>}
CallTarget(f, k) == (f[1] + f[2] * k) % 4096

\* apply(Call(..)) for the calls lo..hi in turn (the lower half of them, then
\* the upper half), stopping at a panic
RECURSIVE DoCalls(_, _, _, _, _)
DoCalls(r, f, lo, hi, chk) ==
    IF r.panicked \/ lo > hi THEN r
    ELSE IF lo = hi THEN apply(r.sys, Call(CallTarget(f, lo)), 0, chk)
    ELSE LET mid == (lo + hi) \div 2
             half == DoCalls(r, f, lo, mid, chk)
         IN  DoCalls(half, f, mid + 1, hi, chk)

\* apply(Ret) n times, stopping at a panic
RECURSIVE DoRets(_, _, _)
DoRets(r, n, chk) ==
    IF r.panicked \/ n <= 0 THEN r
    ELSE IF n = 1 THEN apply(r.sys, Ret, 0, chk)
    ELSE LET half == DoRets(r, n \div 2, chk)
         IN  DoRets(half, n - (n \div 2), chk)

\* C2: from any state with SP = 0, N <= 16 Calls followed by N Rets leave PC
\* at its value before the first Call and SP at 0.
C2_CallRetBalance ==
    (sys.sp = 0 /\ ctl = "apply") =>
        \A depth \in 1..StackSize, f \in CallTargets, chk \in BOOLEAN :
            LET called == DoCalls(Ok(sys), f, 1, depth, chk)
                r == DoRets(called, depth, chk)
            IN  /\ ~called.panicked
                /\ called.sys.sp = depth
                /\ ~r.panicked
                /\ r.sys.pc = sys.pc
                /\ r.sys.sp = 0

\* the run loop made 16 nested calls and has returned from all of them, to
\* the address the first call pushed
C2_Witness ==
    /\ ctl = "fetch"
    /\ ins = Ret
    /\ sys.sp = 0
    /\ sys.stack[StackSize - 1] # 0
    /\ sys.pc = sys.stack[0]
    /\ sys.pc = ProgramStart + 2

\* C3: SP never exceeds 16, and a Call applied when SP = 16 panics: it
\* writes no stack slot, leaves SP and does not move PC to the target.
C3_StackOverflow ==
    /\ [](sys.sp <= StackSize)
    /\ [][(ctl = "apply" /\ ins.op = "Call" /\ sys.sp = StackSize)
            => (ctl' = "panicked" /\ sys' = sys)]_vars

\* the 17th nested call has panicked
C3_Witness == ctl = "panicked" /\ ins.op = "Call" /\ sys.sp = StackSize

\* C4: Ret applied when SP = 0 changes nothing and does not panic; when
\* SP > 0 it sets PC to stack[SP - 1] and takes one from SP.
C4_Ret ==
    [][(ctl = "apply" /\ ins.op = "Ret") =>
         /\ ctl' = "fetch"
         /\ IF sys.sp = 0 THEN sys' = sys
            ELSE /\ sys'.pc = sys.stack[sys.sp - 1]
                 /\ sys'.sp = sys.sp - 1]_vars

\* a Ret was applied with an empty stack: PC is not a popped address
C4_Witness ==
    /\ ctl = "fetch"
    /\ ins = Ret
    /\ sys.sp = 0
    /\ sys.pc = ProgramStart + 2
    /\ sys.stack[0] = 0

\* n ticks of the timers, the first half of them before the second (a tick
\* does not panic)
RECURSIVE TickN(_, _)
TickN(r, n) ==
    IF r.panicked \/ n <= 0 THEN r
    ELSE IF n = 1 THEN Ok(tick_timers(r.sys))
    ELSE TickN(TickN(r, n \div 2), n - (n \div 2))

Dec(v) == IF v > 0 THEN v - 1 ELSE 0

\* a timer that holds v is at 1 after v - 1 ticks, at 0 after v and after v + 1
TicksToZero ==
    /\ TickN(Ok(sys), sys.dt).sys.dt = 0
    /\ TickN(Ok(sys), sys.dt + 1).sys.dt = 0
    /\ sys.dt > 0 => TickN(Ok(sys), sys.dt - 1).sys.dt = 1
    /\ TickN(Ok(sys), sys.st).sys.st = 0
    /\ TickN(Ok(sys), sys.st + 1).sys.st = 0
    /\ sys.st > 0 => TickN(Ok(sys), sys.st - 1).sys.st = 1

\* C5: a tick (the one fetch_instr makes) takes each timer from v to v - 1
\* when v > 0 and leaves it at 0; a timer never wraps below zero, reaches 0
\* after v ticks, and once 0 it stays 0 until a timer-set instruction.
C5_TimerTick ==
    /\ [](sys.dt \in 0..(U8 - 1) /\ sys.st \in 0..(U8 - 1) /\ TicksToZero)
    /\ [][/\ (ctl = "fetch" /\ ctl' # "panicked")
               => (sys'.dt = Dec(sys.dt) /\ sys'.st = Dec(sys.st))
          /\ (sys.dt = 0 /\ ~(ctl = "apply" /\ ins.op = "LdDelayTimerReg"))
               => sys'.dt = 0
          /\ (sys.st = 0 /\ ~(ctl = "apply" /\ ins.op = "LdSoundTimer"))
               => sys'.st = 0]_vars

\* both timers were set to MaxTimer and the run has ended: they ran down to
\* zero during the fetches that followed and stayed there
C5_Witness ==
    /\ ctl = "returned"
    /\ sys.regs[0] = MaxTimer
    /\ sys.regs[1] = MaxTimer
    /\ sys.regs[2] = MaxTimer - 3
    /\ sys.dt = 0
    /\ sys.st = 0

\* C6: no step but the application of a timer-set instruction changes a
\* timer: fetching and executing an instruction leaves the timers alone.
C6_TimersDecoupled ==
    [][/\ sys'.dt # sys.dt => (ctl = "apply" /\ ins.op = "LdDelayTimerReg")
       /\ sys'.st # sys.st => (ctl = "apply" /\ ins.op = "LdSoundTimer")]_vars

\* C7: Sub(x, y) with x # 15 sets reg[x] to (reg[x] - reg[y]) mod 256 and
\* reg[15] to 1 if reg[x] >= reg[y] held before (no borrow), else to 0.
C7_SubNotBorrow ==
    [][(ctl = "apply" /\ ins.op = "Sub" /\ ins.x # 15) =>
         /\ sys'.regs[ins.x] = (sys.regs[ins.x] - sys.regs[ins.y]) % 256
         /\ sys'.regs[15] = IF sys.regs[ins.x] >= sys.regs[ins.y] THEN 1 ELSE 0]_vars

\* C8: AddCarry(x, y) with x # 15 sets reg[x] to (reg[x] + reg[y]) mod 256,
\* and for every x it leaves reg[15] at 1 if the sum exceeds 255, else at 0.
C8_AddCarry ==
    [][(ctl = "apply" /\ ins.op = "AddCarry") =>
         LET sum == sys.regs[ins.x] + sys.regs[ins.y]
         IN  /\ ctl' = "fetch"
             /\ ins.x # 15 => sys'.regs[ins.x] = sum % 256
             /\ sys'.regs[15] = IF sum > 255 THEN 1 ELSE 0]_vars

\* 0xFF + 0x01 was added: the register is 0 and the flag is 1
C8_Witness ==
    /\ ctl = "fetch"
    /\ ins = AddCarry(0, 1)
    /\ sys.regs[0] = 0
    /\ sys.regs[1] = 1
    /\ sys.regs[15] = 1

\* C9: AddReg(x, kk) sets reg[x] to (reg[x] + kk) mod 256 without a panic
\* and changes no other register, the flag register included.
C9_AddLiteral ==
    [][(ctl = "apply" /\ ins.op = "AddReg") =>
         /\ ctl' = "fetch"
         /\ sys'.regs = [sys.regs EXCEPT ![ins.x] = (sys.regs[ins.x] + ins.kk) % 256]]_vars

\* 0x02 was added to 0xFF: the register is 1 and the flag register still 0
C9_Witness ==
    /\ ctl = "fetch"
    /\ ins = AddReg(0, 2)
    /\ sys.regs[0] = 1
    /\ sys.regs[15] = 0

\* C10: after a Drw, the same Drw again (I, the sprite and the coordinate
\* registers as the first one left them and as it found them) gives every
\* cell of the display its value before the first.
C10_DrawTwice ==
    [][(/\ ctl = "apply"
        /\ ins.op = "Drw"
        /\ ctl' = "fetch"
        /\ sys'.regs[ins.x] = sys.regs[ins.x]
        /\ sys'.regs[ins.y] = sys.regs[ins.y]) =>
         LET r == apply(sys', ins, 0, TRUE)
         IN  ~r.panicked /\ r.sys.display = sys.display]_vars

\* the run loop drew a sprite with lit pixels twice at the same place: the
\* second draw has just cleared the display again
C10_Witness ==
    /\ ctl = "fetch"
    /\ ins.op = "Drw"
    /\ ins.n > 0
    /\ sys.mem[sys.i] # 0
    /\ sys.display = Display_new
    /\ parse(sys.mem[sys.pc - 4] * 256 + sys.mem[sys.pc - 3]) = ins

\* C11: a Drw that completes leaves reg[15] at 1 if some pixel went from lit
\* to unlit in it (only a pixel the draw plots can), in whichever row or bit
\* of the sprite, and at 0 otherwise.
C11_DrwCollisionFlag ==
    [][(ctl = "apply" /\ ins.op = "Drw" /\ ctl' = "fetch") =>
         sys'.regs[15] =
            IF \E a \in 0..(HEIGHT - 1), b \in 0..(WIDTH - 1) :
                   sys.display.arr[a][b] /\ ~sys'.display.arr[a][b]
            THEN 1 ELSE 0]_vars

\* C12: LdStoreV0(x), then the registers zeroed, then LdReadV0(x) with the
\* same I: no panic, reg[i] is its value before the store for every i <= x and
\* zero for every i > x.
C12_DumpLoadInverse ==
    (ctl = "apply" /\ ins.op = "LdStoreV0") =>
        \A chk \in BOOLEAN :
            LET stored == apply(sys, LdStoreV0(ins.x), 0, chk)
                zeroed == [stored.sys EXCEPT !.regs = [r \in 0..(NumRegs - 1) |-> 0]]
                loaded == apply(zeroed, LdReadV0(ins.x), 0, chk)
            IN  /\ ~stored.panicked
                /\ ~loaded.panicked
                /\ \A r \in 0..(NumRegs - 1) :
                       loaded.sys.regs[r] = IF r <= ins.x THEN sys.regs[r] ELSE 0

\* C13: in every state the reserved region 0x000..0x1FF of memory, the 80
\* font bytes first, holds the values System::new gave it.
C13_FontKept ==
    \A a \in 0..(ProgramStart - 1) : sys.mem[a] = System_new.mem[a]

\* the instructions that read or write memory at I
MemoryOps == {"Drw", "LdBCD", "LdStoreV0", "LdReadV0"}

\* C14: the instruction fetch and the instructions that access memory at I
\* never panic, and address memory modulo 4096: LdReadV0(x) gives reg[k] the
\* byte at (I + k) mod 4096 for every k <= x.
C14_MemoryTotal ==
    [][/\ ctl = "fetch" => ctl' # "panicked"
       /\ (ctl = "apply" /\ ins.op \in MemoryOps) => ctl' # "panicked"
       /\ (ctl = "apply" /\ ins.op = "LdReadV0") =>
            \A k \in 0..ins.x : sys'.regs[k] = sys.mem[(sys.i + k) % MemSize]]_vars

\* C15: once LdKeypress has been applied and no key has gone down since, the
\* machine waits: no step fetches or executes an instruction or moves PC.
\* (The host's key calls come before run, so none goes down after it.)
C15_WaitForKey ==
    [][(ctl = "fetch" /\ ins.op = "LdKeypress" /\ sys'.keyboard = sys.keyboard) =>
         (ctl' = "fetch" /\ sys'.pc = sys.pc)]_vars

\* C16: Skp(x) adds 2 more to PC exactly when the key whose code is the value
\* of reg[x] is pressed, Sknp(x) exactly when it is not; neither panics nor
\* changes the keyboard.
C16_KeySkipByValue ==
    [][(ctl = "apply" /\ ins.op \in {"Skp", "Sknp"} /\ sys.regs[ins.x] < NumKeys) =>
         LET pressed == sys.keyboard.keys[sys.regs[ins.x]]
             skip == IF ins.op = "Skp" THEN pressed ELSE ~pressed
         IN  /\ ctl' = "fetch"
             /\ sys'.pc = IF skip THEN sys.pc + 2 ELSE sys.pc
             /\ sys'.keyboard = sys.keyboard]_vars

\* the sprite bit the specification has a draw plot at screen row a, column
\* b: bit c (most significant first) of sprite row r goes to column
\* (vx + c) mod 64 of row (vy + r) mod 32
PlottedBit(s, vx, vy, n, a, b) ==
    \E r \in 0..(n - 1), c \in 0..7 :
        /\ a = (vy + r) % HEIGHT
        /\ b = (vx + c) % WIDTH
        /\ bits(s.mem[s.i + r])[c]

\* C17: a Drw(x, y, n) that completes toggles exactly the cells the set bits
\* of the sprite fall on with the origin at column reg[x], row reg[y], wrapped
\* around the 64x32 grid (arr[a][b] is column b of screen row a).
C17_DrwAtRegisters ==
    [][(ctl = "apply" /\ ins.op = "Drw" /\ ctl' = "fetch") =>
         \A a \in 0..(HEIGHT - 1), b \in 0..(WIDTH - 1) :
            sys'.display.arr[a][b] =
                (sys.display.arr[a][b] #
                    PlottedBit(sys, sys.regs[ins.x], sys.regs[ins.y], ins.n, a, b))]_vars

\* C18: LdSprite(x) with reg[x] <= 15 sets I to reg[x] * 5, the offset of the
\* glyph of the digit reg[x] holds, and changes nothing else.
C18_LdSpriteByValue ==
    [][(ctl = "apply" /\ ins.op = "LdSprite" /\ sys.regs[ins.x] <= 15) =>
         /\ ctl' = "fetch"
         /\ sys' = [sys EXCEPT !.i = sys.regs[ins.x] * 5]]_vars

\* C19: with x # 15 and v the value of reg[x], Shr(x, y) leaves reg[x] at
\* v >> 1 and reg[15] at bit 0 of v, Shl(x, y) leaves reg[x] at (v << 1) mod 256
\* and reg[15] at bit 7 of v, whatever reg[y] holds.
C19_Shifts ==
    [][(ctl = "apply" /\ ins.op \in {"Shr", "Shl"} /\ ins.x # 15) =>
         LET v == sys.regs[ins.x]
         IN  /\ ctl' = "fetch"
             /\ sys'.regs[ins.x] = IF ins.op = "Shr" THEN v \div 2 ELSE (v * 2) % 256
             /\ sys'.regs[15] = IF ins.op = "Shr" THEN v % 2 ELSE v \div 128]_vars

\* the values of I a draw of n bytes is tried at: the first and the last that
\* keep the sprite inside memory
DrawStarts(n) == {0, MemSize - n}

\* C20: for every Drw(x, y, n) parse produces and I with I + n <= 4096, the
\* draw completes: every display index it uses is inside arr, so it does not
\* panic.
C20_DrwInDisplay ==
    (ctl = "yielded" /\ ins.op = "Drw") =>
        \A i0 \in DrawStarts(ins.n) :
            ~apply([sys EXCEPT !.i = i0], ins, 0, TRUE).panicked

\* Dfff was decoded: its draw of 15 bytes at rows 15..22, columns 15..29
\* completes and has lit the first bit of its last byte
C20_Witness ==
    /\ ctl = "yielded"
    /\ ins = Drw(15, 15, 15)
    /\ LET r == apply(sys, ins, 0, TRUE)
       IN  ~r.panicked /\ r.sys.display.arr[15][29]

=============================================================================
